---- MODULE Spec2Model ----
(***************************************************************************)
(* Model of the multi-agent orchestrator                                   *)
(* (python/src/orchestrator/orchestrator.py, class AgentOrchestrator).     *)
(*                                                                         *)
(* The orchestrator runs on one asyncio event loop: the code between two   *)
(* suspension points (queue.get, adapter.execute, asyncio.sleep) is one    *)
(* atomic step.  task_queue is an unbounded asyncio.Queue, so              *)
(* "await task_queue.put(x)" never suspends and belongs to the step that   *)
(* calls it; only unregister_agent defers its put through                  *)
(* asyncio.create_task.  A worker's queue.get on a non-empty queue, the    *)
(* selection of the agent and the entry into _execute_task up to           *)
(* "await adapter.execute" are one step.                                   *)
(*                                                                         *)
(* execCount, lastPut and calls are history variables: the number of       *)
(* adapter.execute calls per task, the puts of the last step with their    *)
(* call site, and the number of register/unregister calls so far with     *)
(* the adapter argument of the last register_agent call (supplied or not). *)
(***************************************************************************)
EXTENDS Integers, Sequences, FiniteSets, TLC

\* ---------------------------------------------------------------- bounds
\* Spec: the scheduling core with every operation
MaxTasks == 2
MaxRegs == 3
MaxUnregs == 1
MaxExecs == 3
MaxQueue == 2
MaxDeps == 1
NumWorkers == 2
MaxPools == 2
\* SpecRetry: one task driven through all its retries
RetryMaxRegs == 2
RetryMaxExecs == 5
\* SpecPriority: tasks of different priorities, no dependencies
PrioMaxTasks == 3
PrioMaxExecs == 3
\* SpecSelect: agents of different capabilities and histories
SelMaxTasks == 2
SelMaxExecs == 3
\* SpecHappy: healthy agents, tasks without dependencies
HappyMaxTasks == 2
\* SpecLive: tasks with dependencies, agents that stay
LiveMaxTasks == 2
\* SpecBlock: tasks with and without a matching agent
BlockMaxTasks == 3

\* SpecApi: registration requests
ApiMaxRequests == 3
ApiMaxUnregs == 1
\* SpecRestart: start() and stop(), tasks without dependencies
StopMaxTasks == 2
\* SpecMetrics: agents of two providers, all operations, no dependencies
MetricsMaxTasks == 2
MetricsMaxRegs == 3
MetricsMaxExecs == 3

\* ------------------------------------------------------ program constants
MaxRetries == 3

LOW == 1
MEDIUM == 2
HIGH == 3
CRITICAL == 4

\* ------------------------------------------------------------ input sets
AgentIds == {"a1", "a2"}
Providers == {"openai"}
ProviderTags == {"openai", "google"}
TaskTypes == {"code_generation"}
CapSets == {{"code_generation"}}
Priorities == {LOW, CRITICAL}
ExecTimes == {1}
SelTaskTypes == {"code_generation", "documentation"}
SelCapSets == {{"code_generation"}, {"documentation"}, {"general"}}
SelExecTimes == {1, 2}
Outcomes == {"content", "error_map"}
UnknownTask == 0
NoTask == 0
NoAgent == "none"

VARIABLES
    running,
    tasks,
    agents,
    agentOrder,
    agent_adapters,
    task_queue,
    pendingPuts,
    workers,
    active_tasks,
    performance_metrics,
    execCount,
    lastPut,
    calls,
    pool,
    http

vars == <<running, tasks, agents, agentOrder, agent_adapters, task_queue,
          pendingPuts, workers, active_tasks, performance_metrics,
          execCount, lastPut, calls, pool, http>>

WorkerIds == 1..NumWorkers

\* Worker coroutines of the k-th call of start() that found running false.
PoolIds(k) == ((k - 1) * NumWorkers + 1)..(k * NumWorkers)

AllWorkerIds == 1..(MaxPools * NumWorkers)

TaskIds == DOMAIN tasks

\* A fresh Task record (dataclass defaults).
Task(type, priority, dependencies) ==
    [type |-> type, priority |-> priority, status |-> "pending",
     assigned_agent |-> NoAgent, dependencies |-> dependencies,
     retry_count |-> 0, max_retries |-> MaxRetries,
     result |-> "none", error |-> FALSE,
     started_at |-> FALSE, completed_at |-> FALSE]

\* A fresh AgentInfo record (dataclass defaults).  average_response_time is
\* kept as the pair resp_sum / tasks_completed: the running mean the code
\* maintains equals the sum of the elapsed times of the successes divided
\* by their number.
AgentInfo(provider, capabilities) ==
    [provider |-> provider, capabilities |-> capabilities, status |-> "idle",
     current_task |-> NoTask, tasks_completed |-> 0, tasks_failed |-> 0,
     resp_sum |-> 0]

IdleWorker == [pc |-> "get", task |-> NoTask, agent_id |-> NoAgent,
               live |-> FALSE, provider |-> "none"]

\* A worker coroutine that has returned.
DoneWorker == [IdleWorker EXCEPT !.pc = "done"]

\* A worker that leaves its loop although the orchestrator runs.
LoopTop_exits == DoneWorker

\* "while self.running" at the top of _worker's loop: the worker goes on
\* to queue.get() or returns.
LoopTop == IF running THEN IdleWorker ELSE DoneWorker

\* _are_dependencies_met evaluated on a task store ts.
DepsMetIn(ts, t) ==
    \A d \in ts[t].dependencies :
        d \in DOMAIN ts /\ ts[d].status = "completed"

_are_dependencies_met(t) == DepsMetIn(tasks, t)

\* The ids of seq s, in order, that satisfy Test.
RECURSIVE FilterIds(_, _, _)
FilterIds(n, i, Keep) ==
    IF i > n THEN <<>>
    ELSE (IF i \in Keep THEN <<i>> ELSE <<>>) \o FilterIds(n, i + 1, Keep)

\* Ids of a set of tasks in task-store (insertion) order.
InStoreOrder(ts, Keep) == FilterIds(Cardinality(DOMAIN ts), 1, Keep)

RECURSIVE SumExec(_, _)
SumExec(f, S) ==
    IF S = {} THEN 0
    ELSE LET x == CHOOSE y \in S : TRUE IN f[x] + SumExec(f, S \ {x})

TotalExecs == SumExec(execCount, DOMAIN execCount)

QueueLoad == Len(task_queue) + Len(pendingPuts)

\* ------------------------------------------------- POST /agents/register
\* Provider tags of registration requests.
ApiTags == {"openai", "OpenAI", "claude_flow", "mistral"}

\* provider.lower() on the tags of ApiTags.
lower(provider) == IF provider = "OpenAI" THEN "openai" ELSE provider

\* The adapters map of create_adapter.
adapters ==
    [tag \in {"claude_flow", "gpt", "openai", "gemini", "google", "grok",
              "xai", "anthropic", "claude"} |->
        CASE tag = "claude_flow" -> "ClaudeFlowAdapter"
          [] tag \in {"gpt", "openai"} -> "GPTAdapter"
          [] tag \in {"gemini", "google"} -> "GeminiAdapter"
          [] tag \in {"grok", "xai"} -> "GrokAdapter"
          [] tag \in {"anthropic", "claude"} -> "AnthropicAdapter"]

UnknownProvider == "ValueError"

\* create_adapter(provider): the adapter class, or the ValueError.
create_adapter(provider) ==
    IF lower(provider) \in DOMAIN adapters
    THEN adapters[lower(provider)]
    ELSE UnknownProvider

\* The values initialize() of an adapter class can return.  The Claude Flow
\* adapter returns None when the health request is answered with a status
\* other than 200.
initialize(adapter_class) ==
    IF adapter_class = "ClaudeFlowAdapter"
    THEN {"True", "False", "None"}
    ELSE {"True", "False"}

\* A test that takes everything but False for a success.
truthy_unless_False(value) == value # "False"

\* Python truth value of a result of initialize().
truthy(value) == value = "True"

NotCalled == "not called"

NoResponse == [status_code |-> 0]

Response(req, code, value) ==
    [agent_id |-> req.agent_id, provider |-> req.provider,
     capabilities |-> req.capabilities, status_code |-> code,
     initialized |-> value]

Init ==
    /\ running = FALSE
    /\ tasks = <<>>
    /\ agents = [a \in {} |-> 0]
    /\ agentOrder = <<>>
    /\ agent_adapters = {}
    /\ task_queue = <<>>
    /\ pendingPuts = <<>>
    /\ workers = [w \in AllWorkerIds |-> [IdleWorker EXCEPT !.pc = "none"]]
    /\ active_tasks = 0
    /\ performance_metrics =
           [p \in ProviderTags |->
               [total_tasks |-> 0, successful_tasks |-> 0, failed_tasks |-> 0]]
    /\ execCount = <<>>
    /\ lastPut = <<>>
    /\ calls = [register |-> 0, unregister |-> 0, adapter |-> FALSE]
    /\ pool = [list |-> {}, gather |-> {}, stopping |-> FALSE]
    /\ http = [pending |-> {}, response |-> NoResponse, requests |-> 0,
               answered |-> 0]

\* ------------------------------------------------------------- selector
\* An eligibility test that ignores the capabilities.
Eligible_any_capability(a, t) == agents[a].status = "idle"

Eligible(a, t) ==
    /\ agents[a].status = "idle"
    /\ (tasks[t].type \in agents[a].capabilities
        \/ "general" \in agents[a].capabilities)

\* The score of _select_agent_for_task as the fraction ScoreNum / ScoreDen.
SuccDen(a) == IF agents[a].tasks_completed > 0
              THEN agents[a].tasks_completed + agents[a].tasks_failed ELSE 1

TimeDen(a) == IF agents[a].resp_sum > 0 THEN agents[a].resp_sum ELSE 1

ScoreDen(a) == 10 * SuccDen(a) * TimeDen(a)

CapabilityScore(a, t) ==
    IF tasks[t].type \in agents[a].capabilities THEN 10 ELSE 5

ScoreNum(a, t) ==
    LET c == agents[a].tasks_completed IN
    CapabilityScore(a, t) * ScoreDen(a)
    + (IF c > 0 THEN 5 * c * 10 * TimeDen(a) ELSE 0)
    + (IF agents[a].resp_sum > 0 THEN 2 * c * 10 * SuccDen(a) ELSE 0)
    - c * SuccDen(a) * TimeDen(a)

\* score(a) > score(b)
ScoreGreater(a, b, t) ==
    ScoreNum(a, t) * ScoreDen(b) > ScoreNum(b, t) * ScoreDen(a)

\* A selector that sorts ascending: the worst candidate wins.
_select_agent_for_task_ascending(t) ==
    LET cand == {i \in 1..Len(agentOrder) : Eligible(agentOrder[i], t)} IN
    IF cand = {} THEN NoAgent
    ELSE LET best == CHOOSE i \in cand :
                 /\ \A j \in cand : ~ScoreGreater(agentOrder[i], agentOrder[j], t)
                 /\ \A j \in cand :
                        j < i => ScoreGreater(agentOrder[j], agentOrder[i], t)
         IN agentOrder[best]

\* candidates.sort(reverse=True) is stable: among the best scores the agent
\* that comes first in the iteration order of self.agents wins.
_select_agent_for_task(t) ==
    LET cand == {i \in 1..Len(agentOrder) : Eligible(agentOrder[i], t)} IN
    IF cand = {} THEN NoAgent
    ELSE LET best == CHOOSE i \in cand :
                 /\ \A j \in cand : ~ScoreGreater(agentOrder[j], agentOrder[i], t)
                 /\ \A j \in cand :
                        j < i => ScoreGreater(agentOrder[i], agentOrder[j], t)
         IN agentOrder[best]

\* --------------------------------------------------------------- actions
\* register_agent(agent_id, name, provider, capabilities, adapter)
register_agent(a, provider, capabilities, adapter) ==
    /\ agents' = [x \in DOMAIN agents \cup {a} |->
                     IF x = a THEN AgentInfo(provider, capabilities)
                     ELSE agents[x]]
    /\ agentOrder' = IF a \in DOMAIN agents THEN agentOrder
                     ELSE Append(agentOrder, a)
    /\ agent_adapters' = IF adapter THEN agent_adapters \cup {a}
                         ELSE agent_adapters
    \* a worker that is executing on the replaced AgentInfo object keeps
    \* writing to that object, which is no longer in self.agents
    /\ workers' = [w \in DOMAIN workers |->
                      IF workers[w].agent_id = a
                      THEN [workers[w] EXCEPT !.live = FALSE]
                      ELSE workers[w]]
    /\ lastPut' = <<>>
    /\ calls' = [calls EXCEPT !.register = @ + 1, !.adapter = adapter]
    /\ UNCHANGED <<pool, running, tasks, task_queue, pendingPuts,
                   active_tasks, performance_metrics, execCount>>

RemoveFrom(s, a) == SelectSeq(s, LAMBDA x : x # a)

\* unregister_agent that forgets to delete the adapter.
unregister_agent_keeps_adapter(a) ==
    LET hit == {t \in TaskIds :
                   /\ tasks[t].assigned_agent = a
                   /\ tasks[t].status \in {"assigned", "in_progress"}}
    IN
    /\ a \in DOMAIN agents
    /\ tasks' = [t \in TaskIds |->
                    IF t \in hit
                    THEN [tasks[t] EXCEPT !.status = "pending",
                                          !.assigned_agent = NoAgent]
                    ELSE tasks[t]]
    \* asyncio.create_task(self.task_queue.put(task)): the put runs later
    /\ pendingPuts' = pendingPuts \o InStoreOrder(tasks, hit)
    /\ agents' = [x \in DOMAIN agents \ {a} |-> agents[x]]
    /\ agentOrder' = RemoveFrom(agentOrder, a)
    /\ agent_adapters' = agent_adapters
    /\ workers' = [w \in DOMAIN workers |->
                      IF workers[w].agent_id = a
                      THEN [workers[w] EXCEPT !.live = FALSE]
                      ELSE workers[w]]
    /\ lastPut' = <<>>
    /\ calls' = [calls EXCEPT !.unregister = @ + 1]
    /\ UNCHANGED <<http, pool, running, task_queue, active_tasks,
                   performance_metrics, execCount>>

\* unregister_agent that cancels the executions on its agent.
unregister_agent_cancels(a) ==
    LET hit == {t \in TaskIds :
                   /\ tasks[t].assigned_agent = a
                   /\ tasks[t].status \in {"assigned", "in_progress"}}
        cancelled == {w \in DOMAIN workers : /\ workers[w].pc = "exec"
                                             /\ workers[w].agent_id = a}
    IN
    /\ a \in DOMAIN agents
    /\ tasks' = [t \in TaskIds |->
                    IF t \in hit
                    THEN [tasks[t] EXCEPT !.status = "pending",
                                          !.assigned_agent = NoAgent]
                    ELSE tasks[t]]
    /\ pendingPuts' = pendingPuts \o InStoreOrder(tasks, hit)
    /\ agents' = [x \in DOMAIN agents \ {a} |-> agents[x]]
    /\ agentOrder' = RemoveFrom(agentOrder, a)
    /\ agent_adapters' = agent_adapters \ {a}
    /\ workers' = [w \in DOMAIN workers |->
                      IF w \in cancelled THEN LoopTop ELSE workers[w]]
    /\ active_tasks' = active_tasks - Cardinality(cancelled)
    /\ lastPut' = <<>>
    /\ calls' = [calls EXCEPT !.unregister = @ + 1]
    /\ UNCHANGED <<http, pool, running, task_queue, performance_metrics,
                   execCount>>

\* unregister_agent(agent_id) on a registered id
unregister_agent(a) ==
    LET hit == {t \in TaskIds :
                   /\ tasks[t].assigned_agent = a
                   /\ tasks[t].status \in {"assigned", "in_progress"}}
    IN
    /\ a \in DOMAIN agents
    /\ tasks' = [t \in TaskIds |->
                    IF t \in hit
                    THEN [tasks[t] EXCEPT !.status = "pending",
                                          !.assigned_agent = NoAgent]
                    ELSE tasks[t]]
    \* asyncio.create_task(self.task_queue.put(task)): the put runs later
    /\ pendingPuts' = pendingPuts \o InStoreOrder(tasks, hit)
    /\ agents' = [x \in DOMAIN agents \ {a} |-> agents[x]]
    /\ agentOrder' = RemoveFrom(agentOrder, a)
    /\ agent_adapters' = agent_adapters \ {a}
    /\ workers' = [w \in DOMAIN workers |->
                      IF workers[w].agent_id = a
                      THEN [workers[w] EXCEPT !.live = FALSE]
                      ELSE workers[w]]
    /\ lastPut' = <<>>
    /\ calls' = [calls EXCEPT !.unregister = @ + 1]
    /\ UNCHANGED <<http, pool, running, task_queue, active_tasks,
                   performance_metrics, execCount>>

\* unregister_agent(agent_id) on an id that is not registered: returns
\* False (the API answers 404).
unregister_unknown(a) ==
    /\ a \notin DOMAIN agents
    /\ lastPut' = <<>>
    /\ calls' = [calls EXCEPT !.unregister = @ + 1]
    /\ UNCHANGED <<http, pool, running, tasks, agents, agentOrder,
                   agent_adapters, task_queue, pendingPuts, workers,
                   active_tasks, performance_metrics, execCount>>

\* The scheduled put is lost.
deferred_put_lost ==
    /\ pendingPuts # <<>>
    /\ task_queue' = task_queue
    /\ pendingPuts' = Tail(pendingPuts)
    /\ lastPut' = <<>>
    /\ UNCHANGED <<http, pool, calls, running, tasks, agents, agentOrder,
                   agent_adapters, workers, active_tasks, performance_metrics,
                   execCount>>

\* The put that unregister_agent scheduled with asyncio.create_task runs.
deferred_put ==
    /\ pendingPuts # <<>>
    /\ task_queue' = Append(task_queue, Head(pendingPuts))
    /\ pendingPuts' = Tail(pendingPuts)
    /\ lastPut' = <<<<Head(pendingPuts), "unregister">>>>
    /\ UNCHANGED <<http, pool, calls, running, tasks, agents, agentOrder,
                   agent_adapters, workers, active_tasks, performance_metrics,
                   execCount>>

\* submit_task that queues the task whatever its dependencies.
submit_task_always_queues(type, priority, dependencies) ==
    LET id == Len(tasks) + 1
        ts == Append(tasks, Task(type, priority, dependencies))
    IN
    /\ tasks' = ts
    /\ execCount' = Append(execCount, 0)
    /\ task_queue' = Append(task_queue, id)
    /\ lastPut' = <<<<id, "submit">>>>
    /\ UNCHANGED <<http, pool, calls, running, agents, agentOrder,
                   agent_adapters, pendingPuts, workers, active_tasks,
                   performance_metrics>>

\* submit_task(task_type, prompt, priority, dependencies)
submit_task(type, priority, dependencies) ==
    LET id == Len(tasks) + 1
        ts == Append(tasks, Task(type, priority, dependencies))
    IN
    /\ tasks' = ts
    /\ execCount' = Append(execCount, 0)
    /\ IF DepsMetIn(ts, id)
       THEN /\ task_queue' = Append(task_queue, id)
            /\ lastPut' = <<<<id, "submit">>>>
       ELSE /\ task_queue' = task_queue
            /\ lastPut' = <<>>
    /\ UNCHANGED <<http, pool, calls, running, agents, agentOrder,
                   agent_adapters, pendingPuts, workers, active_tasks,
                   performance_metrics>>

\* A watcher that also queues PENDING tasks without dependencies.
_check_dependencies_any_pending ==
    LET ready == {t \in TaskIds :
                     /\ tasks[t].status = "pending"
                     /\ _are_dependencies_met(t)}
        put == InStoreOrder(tasks, ready)
    IN
    /\ running
    /\ ready # {}
    /\ task_queue' = task_queue \o put
    /\ lastPut' = [i \in 1..Len(put) |-> <<put[i], "watcher">>]
    /\ UNCHANGED <<http, pool, calls, running, tasks, agents, agentOrder,
                   agent_adapters, pendingPuts, workers, active_tasks,
                   performance_metrics, execCount>>

\* One pass of the loop body of _check_dependencies.
_check_dependencies ==
    LET ready == {t \in TaskIds :
                     /\ tasks[t].status = "pending"
                     /\ tasks[t].dependencies # {}
                     /\ _are_dependencies_met(t)}
        put == InStoreOrder(tasks, ready)
    IN
    /\ running
    /\ ready # {}
    /\ task_queue' = task_queue \o put
    /\ lastPut' = [i \in 1..Len(put) |-> <<put[i], "watcher">>]
    /\ UNCHANGED <<http, pool, calls, running, tasks, agents, agentOrder,
                   agent_adapters, pendingPuts, workers, active_tasks,
                   performance_metrics, execCount>>

\* Pools of worker ids that no call of start() has used yet.
FreePools == {k \in 1..MaxPools : \A w \in PoolIds(k) : workers[w].pc = "none"}

\* start(): running was false; the workers and the dependency checker are
\* created and the workers are appended to self.workers.
start ==
    /\ ~running
    /\ FreePools # {}
    /\ LET k == CHOOSE x \in FreePools : \A y \in FreePools : x <= y IN
       /\ workers' = [w \in DOMAIN workers |->
                         IF w \in PoolIds(k) THEN IdleWorker ELSE workers[w]]
       /\ pool' = [pool EXCEPT !.list = @ \cup PoolIds(k)]
    /\ running' = TRUE
    /\ lastPut' = <<>>
    /\ UNCHANGED <<http, calls, tasks, agents, agentOrder, agent_adapters,
                   task_queue, pendingPuts, active_tasks, performance_metrics,
                   execCount>>

\* stop() up to "await asyncio.gather(*self.workers)".  gather() of no task
\* is done at once: with an empty workers list stop() returns in the same
\* step.
stop ==
    /\ running' = FALSE
    /\ pool' = IF pool.list = {}
               THEN pool
               ELSE [pool EXCEPT !.gather = pool.list, !.stopping = TRUE]
    /\ lastPut' = <<>>
    /\ UNCHANGED <<http, calls, tasks, agents, agentOrder, agent_adapters,
                   task_queue, pendingPuts, workers, active_tasks,
                   performance_metrics, execCount>>

\* stop(): every gathered worker has returned; self.workers.clear().
stop_returns ==
    /\ pool.stopping
    /\ \A w \in pool.gather : workers[w].pc = "done"
    /\ pool' = [list |-> {}, gather |-> {}, stopping |-> FALSE]
    /\ lastPut' = <<>>
    /\ UNCHANGED <<http, calls, running, tasks, agents, agentOrder,
                   agent_adapters, task_queue, pendingPuts, workers,
                   active_tasks, performance_metrics, execCount>>

\* ---------------------------------------------------------------- worker
\* A no-agent requeue that counts as a retry.
worker_no_agent_counts_retry(w) ==
    LET t == Head(task_queue) IN
    /\ workers[w].pc = "get"
    /\ task_queue # <<>>
    /\ _select_agent_for_task(t) = NoAgent
    /\ task_queue' = Append(Tail(task_queue), t)
    /\ tasks' = [tasks EXCEPT ![t].retry_count = @ + 1]
    /\ workers' = [workers EXCEPT ![w].pc = "sleep"]
    /\ lastPut' = <<<<t, "no_agent">>>>
    /\ UNCHANGED <<http, pool, calls, running, agents, agentOrder,
                   agent_adapters, pendingPuts, active_tasks,
                   performance_metrics, execCount>>

\* A worker that puts the task it cannot place back at the head.
worker_no_agent_requeues_at_head(w) ==
    LET t == Head(task_queue) IN
    /\ workers[w].pc = "get"
    /\ task_queue # <<>>
    /\ _select_agent_for_task(t) = NoAgent
    /\ task_queue' = task_queue
    /\ workers' = [workers EXCEPT ![w].pc = "sleep"]
    /\ lastPut' = <<<<t, "no_agent">>>>
    /\ UNCHANGED <<http, pool, calls, running, tasks, agents, agentOrder,
                   agent_adapters, pendingPuts, active_tasks,
                   performance_metrics, execCount>>

\* _worker: queue.get() returned a task and the selector found no agent:
\* the task is put back and the worker sleeps.
worker_no_agent(w) ==
    LET t == Head(task_queue) IN
    /\ workers[w].pc = "get"
    /\ task_queue # <<>>
    /\ _select_agent_for_task(t) = NoAgent
    /\ task_queue' = Append(Tail(task_queue), t)
    /\ workers' = [workers EXCEPT ![w].pc = "sleep"]
    /\ lastPut' = <<<<t, "no_agent">>>>
    /\ UNCHANGED <<http, pool, calls, running, tasks, agents, agentOrder,
                   agent_adapters, pendingPuts, active_tasks,
                   performance_metrics, execCount>>

\* _worker: asyncio.sleep(1) after the requeue is over.
worker_wake(w) ==
    /\ workers[w].pc = "sleep"
    /\ workers' = [workers EXCEPT ![w] = LoopTop]
    /\ lastPut' = <<>>
    /\ UNCHANGED <<http, pool, calls, running, tasks, agents, agentOrder,
                   agent_adapters, task_queue, pendingPuts, active_tasks,
                   performance_metrics, execCount>>

\* A worker without the "finally" that restores active_tasks.
worker_no_adapter_leaks_active(w) ==
    LET t == Head(task_queue)
        a == _select_agent_for_task(t)
    IN
    /\ workers[w].pc = "get"
    /\ task_queue # <<>>
    /\ a # NoAgent
    /\ a \notin agent_adapters
    /\ task_queue' = Tail(task_queue)
    /\ active_tasks' = active_tasks + 1
    /\ workers' = [workers EXCEPT ![w] = LoopTop]
    /\ lastPut' = <<>>
    /\ UNCHANGED <<http, pool, calls, running, tasks, agents, agentOrder,
                   agent_adapters, pendingPuts, performance_metrics,
                   execCount>>

\* _worker: the selected agent has no adapter: _execute_task raises
\* ValueError before it changes anything, the worker logs it; the task
\* that was taken from the queue is not put back.
worker_no_adapter(w) ==
    LET t == Head(task_queue)
        a == _select_agent_for_task(t)
    IN
    /\ workers[w].pc = "get"
    /\ task_queue # <<>>
    /\ a # NoAgent
    /\ a \notin agent_adapters
    /\ task_queue' = Tail(task_queue)
    /\ workers' = [workers EXCEPT ![w] = LoopTop]
    /\ lastPut' = <<>>
    /\ UNCHANGED <<http, pool, calls, running, tasks, agents, agentOrder,
                   agent_adapters, pendingPuts, active_tasks,
                   performance_metrics, execCount>>

\* _worker: queue.get() timed out on the empty queue and running is false:
\* the worker returns.  (While running is true the worker calls
\* queue.get() again, which changes nothing.)
worker_timeout(w) ==
    /\ workers[w].pc = "get"
    /\ task_queue = <<>>
    /\ ~running
    /\ workers' = [workers EXCEPT ![w] = DoneWorker]
    /\ lastPut' = <<>>
    /\ UNCHANGED <<http, pool, calls, running, tasks, agents, agentOrder,
                   agent_adapters, task_queue, pendingPuts, active_tasks,
                   performance_metrics, execCount>>

\* _worker + _execute_task up to "await adapter.execute(...)".
worker_start(w) ==
    LET t == Head(task_queue)
        a == _select_agent_for_task(t)
    IN
    /\ workers[w].pc = "get"
    /\ task_queue # <<>>
    /\ a # NoAgent
    /\ a \in agent_adapters
    /\ task_queue' = Tail(task_queue)
    /\ active_tasks' = active_tasks + 1
    /\ agents' = [agents EXCEPT ![a].status = "busy",
                                ![a].current_task = t]
    /\ tasks' = [tasks EXCEPT ![t].status = "in_progress",
                              ![t].assigned_agent = a,
                              ![t].started_at = TRUE]
    /\ execCount' = [execCount EXCEPT ![t] = @ + 1]
    /\ workers' = [workers EXCEPT ![w] =
                      [pc |-> "exec", task |-> t, agent_id |-> a,
                       live |-> TRUE, provider |-> agents[a].provider]]
    /\ lastPut' = <<>>
    /\ UNCHANGED <<http, pool, calls, running, agentOrder, agent_adapters,
                   pendingPuts, performance_metrics>>

\* _update_metrics that counts a failure only in failed_tasks.
_update_metrics_no_total(m, provider, success) ==
    [m EXCEPT ![provider].total_tasks = IF success THEN @ + 1 ELSE @,
              ![provider].successful_tasks = IF success THEN @ + 1 ELSE @,
              ![provider].failed_tasks = IF success THEN @ ELSE @ + 1]

\* _update_metrics(provider, success, execution_time)
_update_metrics(m, provider, success) ==
    [m EXCEPT ![provider].total_tasks = @ + 1,
              ![provider].successful_tasks = IF success THEN @ + 1 ELSE @,
              ![provider].failed_tasks = IF success THEN @ ELSE @ + 1]

\* A "finally" that marks the agent OFFLINE.
ReleaseAgent_goes_offline(ag) ==
    [ag EXCEPT !.status = "offline", !.current_task = NoTask]

\* A "finally" that clears current_task and leaves the status.
ReleaseAgent_stays_busy(ag) == [ag EXCEPT !.current_task = NoTask]

\* A "finally" that resets the status and leaves current_task.
ReleaseAgent_keeps_task(ag) == [ag EXCEPT !.status = "idle"]

\* The "finally" of _execute_task, on the AgentInfo object the worker holds.
ReleaseAgent(ag) == [ag EXCEPT !.status = "idle", !.current_task = NoTask]

\* The success branch that does not store the returned value.
execute_returns_drops_result(w, outcome, elapsed) ==
    LET t == workers[w].task
        a == workers[w].agent_id
        ts == [tasks EXCEPT ![t].status = "completed",
                            ![t].completed_at = TRUE]
        promoted == InStoreOrder(ts, {o \in DOMAIN ts :
                        t \in ts[o].dependencies /\ DepsMetIn(ts, o)})
    IN
    /\ workers[w].pc = "exec"
    /\ outcome \in {"content", "error_map"}
    /\ tasks' = ts
    /\ agents' = IF workers[w].live
                 THEN [agents EXCEPT ![a] = ReleaseAgent(
                          [@ EXCEPT !.tasks_completed = @ + 1,
                                    !.resp_sum = @ + elapsed])]
                 ELSE agents
    /\ performance_metrics' =
           _update_metrics(performance_metrics, workers[w].provider, TRUE)
    /\ task_queue' = task_queue \o promoted
    /\ lastPut' = [i \in 1..Len(promoted) |-> <<promoted[i], "promotion">>]
    /\ active_tasks' = active_tasks - 1
    /\ workers' = [workers EXCEPT ![w] = LoopTop]
    /\ UNCHANGED <<http, pool, calls, running, agentOrder, agent_adapters,
                   pendingPuts, execCount>>

\* adapter.execute returned a value (a map with content, or a map with
\* error): rest of _execute_task's try branch, its finally, and the
\* worker's promotion of dependent tasks.
execute_returns(w, outcome, elapsed) ==
    LET t == workers[w].task
        a == workers[w].agent_id
        ts == [tasks EXCEPT ![t].status = "completed",
                            ![t].completed_at = TRUE,
                            ![t].result = outcome]
        promoted == InStoreOrder(ts, {o \in DOMAIN ts :
                        t \in ts[o].dependencies /\ DepsMetIn(ts, o)})
    IN
    /\ workers[w].pc = "exec"
    /\ outcome \in {"content", "error_map"}
    /\ tasks' = ts
    /\ agents' = IF workers[w].live
                 THEN [agents EXCEPT ![a] = ReleaseAgent(
                          [@ EXCEPT !.tasks_completed = @ + 1,
                                    !.resp_sum = @ + elapsed])]
                 ELSE agents
    /\ performance_metrics' =
           _update_metrics(performance_metrics, workers[w].provider, TRUE)
    /\ task_queue' = task_queue \o promoted
    /\ lastPut' = [i \in 1..Len(promoted) |-> <<promoted[i], "promotion">>]
    /\ active_tasks' = active_tasks - 1
    /\ workers' = [workers EXCEPT ![w] = LoopTop]
    /\ UNCHANGED <<http, pool, calls, running, agentOrder, agent_adapters,
                   pendingPuts, execCount>>

\* The except branch with a retry test that is off by one.
execute_raises_retry_off_by_one(w) ==
    LET t == workers[w].task
        a == workers[w].agent_id
        retry == tasks[t].retry_count <= tasks[t].max_retries
        failed == [tasks EXCEPT ![t].status = "failed",
                                ![t].error = TRUE,
                                ![t].completed_at = TRUE]
        ts == IF retry
              THEN [failed EXCEPT ![t].retry_count = @ + 1,
                                  ![t].status = "pending",
                                  ![t].assigned_agent = NoAgent]
              ELSE failed
        promoted == InStoreOrder(ts, {o \in DOMAIN ts :
                        t \in ts[o].dependencies /\ DepsMetIn(ts, o)})
    IN
    /\ workers[w].pc = "exec"
    /\ tasks' = ts
    /\ agents' = IF workers[w].live
                 THEN [agents EXCEPT ![a] = ReleaseAgent(
                          [@ EXCEPT !.tasks_failed = @ + 1])]
                 ELSE agents
    /\ performance_metrics' =
           _update_metrics(performance_metrics, workers[w].provider, FALSE)
    /\ task_queue' = (IF retry THEN Append(task_queue, t) ELSE task_queue)
                     \o promoted
    /\ lastPut' = (IF retry THEN <<<<t, "retry">>>> ELSE <<>>)
                  \o [i \in 1..Len(promoted) |-> <<promoted[i], "promotion">>]
    /\ active_tasks' = active_tasks - 1
    /\ workers' = [workers EXCEPT ![w] = LoopTop]
    /\ UNCHANGED <<http, pool, calls, running, agentOrder, agent_adapters,
                   pendingPuts, execCount>>

\* adapter.execute raised: the except branch of _execute_task with its
\* retry logic, its finally, and the worker's (empty-handed) promotion loop.
execute_raises(w) ==
    LET t == workers[w].task
        a == workers[w].agent_id
        retry == tasks[t].retry_count < tasks[t].max_retries
        failed == [tasks EXCEPT ![t].status = "failed",
                                ![t].error = TRUE,
                                ![t].completed_at = TRUE]
        ts == IF retry
              THEN [failed EXCEPT ![t].retry_count = @ + 1,
                                  ![t].status = "pending",
                                  ![t].assigned_agent = NoAgent]
              ELSE failed
        promoted == InStoreOrder(ts, {o \in DOMAIN ts :
                        t \in ts[o].dependencies /\ DepsMetIn(ts, o)})
    IN
    /\ workers[w].pc = "exec"
    /\ tasks' = ts
    /\ agents' = IF workers[w].live
                 THEN [agents EXCEPT ![a] = ReleaseAgent(
                          [@ EXCEPT !.tasks_failed = @ + 1])]
                 ELSE agents
    /\ performance_metrics' =
           _update_metrics(performance_metrics, workers[w].provider, FALSE)
    /\ task_queue' = (IF retry THEN Append(task_queue, t) ELSE task_queue)
                     \o promoted
    /\ lastPut' = (IF retry THEN <<<<t, "retry">>>> ELSE <<>>)
                  \o [i \in 1..Len(promoted) |-> <<promoted[i], "promotion">>]
    /\ active_tasks' = active_tasks - 1
    /\ workers' = [workers EXCEPT ![w] = LoopTop]
    /\ UNCHANGED <<http, pool, calls, running, agentOrder, agent_adapters,
                   pendingPuts, execCount>>

\* The number of stored tasks with a status.
CountStatus(status) ==
    Cardinality({t \in TaskIds : tasks[t].status = status})

\* get_status(): running, the task counts, queue_size and active_tasks.
get_status ==
    [running |-> running,
     tasks |-> [total |-> Len(tasks),
                pending |-> CountStatus("pending"),
                in_progress |-> CountStatus("in_progress"),
                completed |-> CountStatus("completed"),
                failed |-> CountStatus("failed")],
     queue_size |-> Len(task_queue),
     active_tasks |-> active_tasks]

\* ------------------------------------------------------- specifications
\* The environment (clients of the control API) is bounded: at most
\* MaxTasks submissions, MaxRegs registrations, MaxUnregs unregistrations,
\* MaxExecs calls of adapter.execute, and no client or watcher put while
\* MaxQueue entries are waiting.
CanPut(n) == n = 0 \/ QueueLoad + n <= MaxQueue

Hit(a) == {t \in TaskIds : /\ tasks[t].assigned_agent = a
                           /\ tasks[t].status \in {"assigned", "in_progress"}}

\* ------------------------------------------------------------------ API
\* POST /agents/register up to "await adapter.initialize()": an unknown
\* provider tag is answered with 400 at once.
api_register_agent(a, provider, capabilities) ==
    LET req == [agent_id |-> a, provider |-> provider,
                capabilities |-> capabilities]
    IN
    /\ http' = IF create_adapter(provider) = UnknownProvider
               THEN [http EXCEPT !.requests = @ + 1,
                                 !.answered = @ + 1,
                                 !.response = Response(req, 400, NotCalled)]
               ELSE [http EXCEPT !.requests = @ + 1,
                                 !.pending = @ \cup {req}]
    /\ lastPut' = <<>>
    /\ UNCHANGED <<pool, calls, running, tasks, agents, agentOrder,
                   agent_adapters, task_queue, pendingPuts, workers,
                   active_tasks, performance_metrics, execCount>>

\* POST /agents/register after initialize() returned value: the agent is
\* registered with its adapter, or the ValueError is answered with 400.
api_register_returns(req, value) ==
    /\ req \in http.pending
    /\ value \in initialize(create_adapter(req.provider))
    /\ IF truthy(value)
       THEN /\ register_agent(req.agent_id, req.provider, req.capabilities,
                              TRUE)
            /\ http' = [http EXCEPT !.pending = @ \ {req},
                                    !.answered = @ + 1,
                                    !.response = Response(req, 200, value)]
       ELSE /\ http' = [http EXCEPT !.pending = @ \ {req},
                                    !.answered = @ + 1,
                                    !.response = Response(req, 400, value)]
            /\ lastPut' = <<>>
            /\ UNCHANGED <<pool, calls, running, tasks, agents, agentOrder,
                           agent_adapters, task_queue, pendingPuts, workers,
                           active_tasks, performance_metrics, execCount>>

Next ==
    \/ start
    \/ \E a \in AgentIds, p \in Providers, c \in CapSets, ad \in BOOLEAN :
           /\ calls.register < MaxRegs
           /\ register_agent(a, p, c, ad)
           /\ UNCHANGED http
    \/ \E a \in AgentIds :
           /\ calls.unregister < MaxUnregs
           /\ CanPut(Cardinality(Hit(a)))
           /\ unregister_agent(a)
    \/ \E a \in AgentIds :
           /\ calls.unregister < MaxUnregs
           /\ unregister_unknown(a)
    \/ deferred_put
    \/ \E ty \in TaskTypes, d \in SUBSET (TaskIds \cup {UnknownTask}) :
           /\ Len(tasks) < MaxTasks
           /\ Cardinality(d) <= MaxDeps
           /\ CanPut(1)
           /\ submit_task(ty, MEDIUM, d)
    \/ (CanPut(1) /\ _check_dependencies)
    \/ \E w \in WorkerIds : worker_no_agent(w)
    \/ \E w \in WorkerIds : worker_wake(w)
    \/ \E w \in WorkerIds : worker_no_adapter(w)
    \/ \E w \in WorkerIds : TotalExecs < MaxExecs /\ worker_start(w)
    \/ \E w \in WorkerIds, o \in Outcomes, e \in ExecTimes :
           execute_returns(w, o, e)
    \/ \E w \in WorkerIds : execute_raises(w)

Spec == Init /\ [][Next]_vars

\* One task without dependencies, every attempt of which may fail.
NextRetry ==
    \/ start
    \/ \E a \in AgentIds, p \in Providers, c \in CapSets :
           /\ calls.register < RetryMaxRegs
           /\ register_agent(a, p, c, TRUE)
           /\ UNCHANGED http
    \/ \E a \in AgentIds :
           /\ calls.unregister < MaxUnregs
           /\ unregister_agent(a)
    \/ deferred_put
    \/ \E ty \in TaskTypes :
           /\ Len(tasks) < 1
           /\ submit_task(ty, MEDIUM, {})
    \/ \E w \in WorkerIds : worker_no_agent(w)
    \/ \E w \in WorkerIds : worker_wake(w)
    \/ \E w \in WorkerIds : TotalExecs < RetryMaxExecs /\ worker_start(w)
    \/ \E w \in WorkerIds, e \in ExecTimes : execute_returns(w, "content", e)
    \/ \E w \in WorkerIds : execute_raises(w)

SpecRetry == Init /\ [][NextRetry]_vars

\* Tasks of different priorities and no dependencies, agents that stay.
NextPriority ==
    \/ start
    \/ \E a \in AgentIds, p \in Providers, c \in CapSets :
           /\ a \notin DOMAIN agents
           /\ register_agent(a, p, c, TRUE)
           /\ UNCHANGED http
    \/ \E ty \in TaskTypes, pr \in Priorities :
           /\ Len(tasks) < PrioMaxTasks
           /\ submit_task(ty, pr, {})
    \/ \E w \in WorkerIds : worker_no_agent(w)
    \/ \E w \in WorkerIds : worker_wake(w)
    \/ \E w \in WorkerIds : TotalExecs < PrioMaxExecs /\ worker_start(w)
    \/ \E w \in WorkerIds, e \in ExecTimes : execute_returns(w, "content", e)

SpecPriority == Init /\ [][NextPriority]_vars

\* One task without dependencies whose agent is unregistered while it
\* executes.  The agents that remain are healthy: after the unregistration
\* only the execute call that was in flight on the removed agent may still
\* raise.  Every adapter call ends (the adapters' requests time out), the
\* workers and the event loop's scheduled puts are scheduled fairly.
GracefulWorker(w) ==
    \/ worker_no_agent(w)
    \/ worker_wake(w)
    \/ worker_start(w)
    \/ \E e \in ExecTimes : execute_returns(w, "content", e)
    \/ (calls.unregister = 0 \/ ~workers[w].live) /\ execute_raises(w)

NextGraceful ==
    \/ start
    \/ \E a \in AgentIds, p \in Providers, c \in CapSets :
           /\ a \notin DOMAIN agents
           /\ register_agent(a, p, c, TRUE)
           /\ UNCHANGED http
    \/ \E a \in AgentIds :
           /\ calls.unregister < MaxUnregs
           /\ Hit(a) # {}
           /\ unregister_agent(a)
    \/ deferred_put
    \/ \E ty \in TaskTypes :
           /\ Len(tasks) < 1
           /\ submit_task(ty, MEDIUM, {})
    \/ \E w \in WorkerIds : GracefulWorker(w)

SpecGraceful ==
    /\ Init
    /\ [][NextGraceful]_vars
    /\ WF_vars(deferred_put)
    /\ \A w \in WorkerIds : WF_vars(GracefulWorker(w))

\* Agents of two providers, tasks without dependencies, every operation
\* that touches the provider metrics.
NextMetrics ==
    \/ start
    \/ \E a \in AgentIds, p \in ProviderTags, c \in CapSets :
           /\ calls.register < MetricsMaxRegs
           /\ register_agent(a, p, c, TRUE)
           /\ UNCHANGED http
    \/ \E a \in AgentIds :
           /\ calls.unregister < MaxUnregs
           /\ unregister_agent(a)
    \/ deferred_put
    \/ \E ty \in TaskTypes :
           /\ Len(tasks) < MetricsMaxTasks
           /\ submit_task(ty, MEDIUM, {})
    \/ \E w \in WorkerIds : worker_no_agent(w)
    \/ \E w \in WorkerIds : worker_wake(w)
    \/ \E w \in WorkerIds : TotalExecs < MetricsMaxExecs /\ worker_start(w)
    \/ \E w \in WorkerIds, e \in ExecTimes : execute_returns(w, "content", e)
    \/ \E w \in WorkerIds : execute_raises(w)

SpecMetrics == Init /\ [][NextMetrics]_vars

\* One task without dependencies, agents of either provider that are
\* registered once and stay, every attempt of which may raise.
NextAttempts ==
    \/ start
    \/ \E a \in AgentIds, p \in ProviderTags, c \in CapSets :
           /\ a \notin DOMAIN agents
           /\ register_agent(a, p, c, TRUE)
           /\ UNCHANGED http
    \/ \E ty \in TaskTypes :
           /\ Len(tasks) < 1
           /\ submit_task(ty, MEDIUM, {})
    \/ \E w \in WorkerIds : worker_no_agent(w)
    \/ \E w \in WorkerIds : worker_wake(w)
    \/ \E w \in WorkerIds : worker_start(w)
    \/ \E w \in WorkerIds, e \in ExecTimes : execute_returns(w, "content", e)
    \/ \E w \in WorkerIds : execute_raises(w)

SpecAttempts == Init /\ [][NextAttempts]_vars

\* Agents with different capability sets and execution histories, tasks
\* of two types without dependencies; agents are registered once.
NextSelect ==
    \/ start
    \/ \E a \in AgentIds, p \in Providers, c \in SelCapSets :
           /\ a \notin DOMAIN agents
           /\ register_agent(a, p, c, TRUE)
           /\ UNCHANGED http
    \/ \E ty \in SelTaskTypes :
           /\ Len(tasks) < SelMaxTasks
           /\ submit_task(ty, MEDIUM, {})
    \/ \E w \in WorkerIds : worker_no_agent(w)
    \/ \E w \in WorkerIds : worker_wake(w)
    \/ \E w \in WorkerIds : TotalExecs < SelMaxExecs /\ worker_start(w)
    \/ \E w \in WorkerIds, e \in SelExecTimes :
           execute_returns(w, "content", e)
    \/ \E w \in WorkerIds : execute_raises(w)

SpecSelect == Init /\ [][NextSelect]_vars

\* Healthy agents (registered once with an adapter, every execute call
\* returns a value) and tasks without dependencies; the workers are
\* scheduled fairly and every adapter call ends.
HappyWorker(w) ==
    \/ worker_no_agent(w)
    \/ worker_wake(w)
    \/ worker_start(w)
    \/ \E o \in Outcomes, e \in ExecTimes : execute_returns(w, o, e)

NextHappy ==
    \/ start
    \/ \E a \in AgentIds, p \in Providers, c \in SelCapSets :
           /\ a \notin DOMAIN agents
           /\ register_agent(a, p, c, TRUE)
           /\ UNCHANGED http
    \/ \E ty \in SelTaskTypes :
           /\ Len(tasks) < HappyMaxTasks
           /\ submit_task(ty, MEDIUM, {})
    \/ \E w \in WorkerIds : HappyWorker(w)

SpecHappy ==
    /\ Init
    /\ [][NextHappy]_vars
    /\ \A w \in WorkerIds : WF_vars(HappyWorker(w))

\* Tasks with dependencies on stored tasks and agents that are registered
\* once with an adapter and stay; every execute call ends, by returning a
\* value or by raising.  Workers and the dependency watcher are scheduled
\* fairly.
LiveWorker(w) ==
    \/ worker_no_agent(w)
    \/ worker_wake(w)
    \/ worker_start(w)
    \/ \E e \in ExecTimes : execute_returns(w, "content", e)
    \/ execute_raises(w)

LiveWatcher == CanPut(1) /\ _check_dependencies

NextLive ==
    \/ start
    \/ \E a \in AgentIds, p \in Providers, c \in CapSets :
           /\ a \notin DOMAIN agents
           /\ register_agent(a, p, c, TRUE)
           /\ UNCHANGED http
    \/ \E ty \in TaskTypes, d \in SUBSET TaskIds :
           /\ Len(tasks) < LiveMaxTasks
           /\ Cardinality(d) <= MaxDeps
           /\ submit_task(ty, MEDIUM, d)
    \/ LiveWatcher
    \/ \E w \in WorkerIds : LiveWorker(w)

SpecLive ==
    /\ Init
    /\ [][NextLive]_vars
    /\ WF_vars(LiveWatcher)
    /\ \A w \in WorkerIds : WF_vars(LiveWorker(w))

\* The life cycle: start() and stop() with agents that are registered once
\* and tasks without dependencies.  Every execute call ends.
StopWorker(w) ==
    \/ worker_no_agent(w)
    \/ worker_wake(w)
    \/ worker_timeout(w)
    \/ worker_start(w)
    \/ \E e \in ExecTimes : execute_returns(w, "content", e)
    \/ execute_raises(w)

StopEnv ==
    \/ ~pool.stopping /\ stop
    \/ stop_returns
    \/ \E a \in AgentIds, p \in Providers, c \in CapSets :
           /\ a \notin DOMAIN agents
           /\ register_agent(a, p, c, TRUE)
           /\ UNCHANGED http
    \/ \E ty \in TaskTypes :
           /\ Len(tasks) < StopMaxTasks
           /\ submit_task(ty, MEDIUM, {})
    \/ \E w \in AllWorkerIds : StopWorker(w)

\* start() may be called at any time, also while stop() is waiting for the
\* workers.
NextRestart ==
    \/ start
    \/ StopEnv

SpecRestart ==
    /\ Init
    /\ [][NextRestart]_vars
    /\ WF_vars(stop_returns)
    /\ \A w \in AllWorkerIds : WF_vars(StopWorker(w))

\* Registration requests over HTTP, and unregistrations.
NextApi ==
    \/ start
    \/ \E a \in AgentIds, p \in ApiTags, c \in CapSets :
           /\ http.requests < ApiMaxRequests
           /\ api_register_agent(a, p, c)
    \/ \E req \in http.pending, v \in {"True", "False", "None"} :
           api_register_returns(req, v)
    \/ \E a \in AgentIds :
           /\ calls.unregister < ApiMaxUnregs
           /\ unregister_agent(a)
           /\ UNCHANGED http

SpecApi == Init /\ [][NextApi]_vars

\* Tasks without dependencies of two types and agents that serve one of
\* them, are registered once and stay.  Every execute call returns a
\* value; the workers are scheduled fairly.
BlockWorker(w) ==
    \/ worker_no_agent(w)
    \/ worker_wake(w)
    \/ worker_start(w)
    \/ \E e \in ExecTimes : execute_returns(w, "content", e)

NextBlock ==
    \/ start
    \/ \E a \in AgentIds, p \in Providers, c \in CapSets :
           /\ a \notin DOMAIN agents
           /\ register_agent(a, p, c, TRUE)
           /\ UNCHANGED http
    \/ \E ty \in SelTaskTypes :
           /\ Len(tasks) < BlockMaxTasks
           /\ submit_task(ty, MEDIUM, {})
    \/ \E w \in WorkerIds : BlockWorker(w)

SpecBlock ==
    /\ Init
    /\ [][NextBlock]_vars
    /\ \A w \in WorkerIds : WF_vars(BlockWorker(w))

\* ---------------------------------------------------------------- claims
\* A step in which worker w enters _execute_task and sets its task
\* IN_PROGRESS.
StartsExec(w) == workers[w].pc # "exec" /\ workers'[w].pc = "exec"

\* C1 - Dependency safety: at the moment a worker sets a task IN_PROGRESS,
\* every id in the task's dependencies is a stored task with status
\* COMPLETED.
C1_DependencySafety ==
    [][\A w \in WorkerIds :
          StartsExec(w) =>
              \A d \in tasks'[workers'[w].task].dependencies :
                  d \in DOMAIN tasks' /\ tasks'[d].status = "completed"]_vars

\* C2 - Priority dominance: a worker's dequeue never passes over a waiting
\* task of higher priority, so no task is set IN_PROGRESS while a task of
\* higher priority is still waiting in the ready queue.
C2_PriorityDominance ==
    [][\A w \in WorkerIds :
          StartsExec(w) =>
              \A i \in 1..Len(task_queue') :
                  tasks'[task_queue'[i]].priority
                      <= tasks'[workers'[w].task].priority]_vars

\* C3 - Retry bound: adapter.execute is invoked at most max_retries + 1
\* times for one task id.
C3_RetryBound ==
    \A t \in TaskIds : execCount[t] <= tasks[t].max_retries + 1

\* C4 - At most one agent per task: no two executions of the same task id
\* are in flight at once, and no two agents have the same current_task.
C4_OneAgentPerTask ==
    /\ \A w1, w2 \in WorkerIds :
           (/\ w1 # w2
            /\ workers[w1].pc = "exec"
            /\ workers[w2].pc = "exec") => workers[w1].task # workers[w2].task
    /\ \A a1, a2 \in DOMAIN agents :
           (a1 # a2 /\ agents[a1].current_task # NoTask)
               => agents[a1].current_task # agents[a2].current_task

\* C5 - At most one task per agent: for each agent id at most one
\* adapter.execute call started for that id is in flight, also after the
\* id is registered again.
C5_OneTaskPerAgent ==
    \A a \in AgentIds :
        Cardinality({w \in WorkerIds : /\ workers[w].pc = "exec"
                                       /\ workers[w].agent_id = a}) <= 1

\* C6 - Monotone task state: every status change is PENDING->IN_PROGRESS,
\* IN_PROGRESS->COMPLETED, IN_PROGRESS->FAILED or a reset to PENDING (of a
\* failed attempt with retries left, or of the in-flight task of an
\* unregistered agent).
LegalStatusChange(old, new) ==
    \/ old.status = new.status
    \/ old.status = "pending" /\ new.status = "in_progress"
    \/ old.status = "in_progress" /\ new.status \in {"completed", "failed"}
    \/ old.status = "in_progress" /\ new.status = "pending"
    \/ /\ old.status = "failed" /\ new.status = "pending"
       /\ old.retry_count < old.max_retries

C6_MonotoneTaskState ==
    [][\A t \in TaskIds : LegalStatusChange(tasks[t], tasks'[t])]_vars

\* C7 - A map with `error` returned by the adapter is handled like a raised
\* exception: the task is never COMPLETED with the error map as its result.
C7_ErrorMapIsFailure ==
    \A t \in TaskIds :
        ~(tasks[t].status = "completed" /\ tasks[t].result = "error_map")

\* C8 - The ready queue contains each task id at most once.
C8_QueueNoDuplicates ==
    \A i, j \in 1..Len(task_queue) :
        i # j => task_queue[i] # task_queue[j]

\* C9 - Every put onto the ready queue is of a task that is PENDING and
\* whose prerequisites are all COMPLETED at that moment.
C9_PutOnlyReady ==
    \A i \in 1..Len(lastPut) :
        /\ tasks[lastPut[i][1]].status = "pending"
        /\ _are_dependencies_met(lastPut[i][1])

\* C10 - A task that is FAILED with its retries exhausted stays FAILED.
C10_ExhaustedStaysFailed ==
    [][\A t \in TaskIds :
          (tasks[t].status = "failed"
           /\ tasks[t].retry_count = tasks[t].max_retries)
              => tasks'[t].status = "failed"]_vars

\* C11 - submit_task with a dependency id that is not in the task store
\* fails and creates no task record: every stored task's dependencies are
\* stored tasks.
C11_UnknownDependencyRejected ==
    \A t \in TaskIds : \A d \in tasks[t].dependencies : d \in TaskIds

\* C12 - Graceful unregister: when an agent is unregistered while it is
\* executing task t, t is PENDING with assigned_agent null after the call,
\* and while a healthy eligible agent is registered the requeued t
\* eventually reaches COMPLETED.
HealthyAgentFor(t) ==
    \E a \in DOMAIN agents :
        /\ t \in TaskIds
        /\ a \in agent_adapters
        /\ (tasks[t].type \in agents[a].capabilities
            \/ "general" \in agents[a].capabilities)

Requeued(t) ==
    /\ t \in TaskIds
    /\ calls.unregister > 0
    /\ \/ \E i \in 1..Len(pendingPuts) : pendingPuts[i] = t
       \/ \E i \in 1..Len(task_queue) : task_queue[i] = t

C12_GracefulUnregister ==
    /\ [][\A a \in DOMAIN agents : \A t \in TaskIds :
             (/\ calls'.unregister = calls.unregister + 1
              /\ a \notin DOMAIN agents'
              /\ tasks[t].status = "in_progress"
              /\ tasks[t].assigned_agent = a)
                 => (/\ tasks'[t].status = "pending"
                     /\ tasks'[t].assigned_agent = NoAgent)]_vars
    /\ \A t \in 1..1 :
           (Requeued(t) /\ HealthyAgentFor(t))
               ~> (\/ t \in TaskIds /\ tasks[t].status = "completed"
                   \/ ~HealthyAgentFor(t))

\* The task was completed by another agent while the execute call of the
\* unregistered agent is still in flight.
C12_Witness ==
    /\ calls.unregister > 0
    /\ \E t \in TaskIds :
           /\ tasks[t].status = "completed"
           /\ execCount[t] >= 2
           /\ tasks[t].assigned_agent \in DOMAIN agents
           /\ \E w \in WorkerIds : /\ workers[w].pc = "exec"
                                   /\ workers[w].task = t
                                   /\ ~workers[w].live

\* C13 - Frame effect of unregister_agent.  On a registered id it removes
\* exactly that agent and its adapter, sets every task assigned to it in
\* status ASSIGNED or IN_PROGRESS to PENDING with assigned_agent null and
\* schedules exactly one enqueue of each such task; all other agents, all
\* other tasks, every retry_count, the ready queue and the provider metrics
\* are unchanged.  On an unknown id (the call returns False) nothing changes.
Occurrences(s, t) == Cardinality({i \in 1..Len(s) : s[i] = t})

UnregisterEffect(a) ==
    /\ DOMAIN agents' = DOMAIN agents \ {a}
    /\ \A x \in DOMAIN agents' : agents'[x] = agents[x]
    /\ agent_adapters' = agent_adapters \ {a}
    /\ DOMAIN tasks' = DOMAIN tasks
    /\ \A t \in TaskIds :
           IF /\ tasks[t].assigned_agent = a
              /\ tasks[t].status \in {"assigned", "in_progress"}
           THEN /\ tasks'[t] = [tasks[t] EXCEPT !.status = "pending",
                                                !.assigned_agent = NoAgent]
                /\ Occurrences(pendingPuts', t) = Occurrences(pendingPuts, t) + 1
           ELSE /\ tasks'[t] = tasks[t]
                /\ Occurrences(pendingPuts', t) = Occurrences(pendingPuts, t)
    /\ UNCHANGED <<task_queue, performance_metrics, running, active_tasks>>

C13_UnregisterFrame ==
    [][calls'.unregister = calls.unregister + 1 =>
          \E a \in AgentIds :
              IF a \in DOMAIN agents
              THEN UnregisterEffect(a)
              ELSE UNCHANGED <<agents, agentOrder, agent_adapters, tasks,
                               task_queue, pendingPuts, workers, running,
                               active_tasks, performance_metrics>>]_vars

\* A busy agent has just been unregistered: its task is PENDING, unassigned,
\* scheduled for one enqueue and still being executed.
C13_Witness ==
    /\ calls.unregister > 0
    /\ \E t \in TaskIds :
           /\ Occurrences(pendingPuts, t) = 1
           /\ tasks[t].status = "pending"
           /\ tasks[t].assigned_agent = NoAgent
           /\ \E w \in WorkerIds : /\ workers[w].pc = "exec"
                                   /\ workers[w].task = t
                                   /\ workers[w].agent_id \notin DOMAIN agents

\* C14 - Metrics identity: in every reachable state and for every provider
\* tag P, total_tasks = successful_tasks + failed_tasks, the three counters
\* are non-negative, and no step decreases any of them.
C14_MetricsIdentity ==
    /\ [](\A p \in ProviderTags :
             LET m == performance_metrics[p] IN
             /\ m.total_tasks = m.successful_tasks + m.failed_tasks
             /\ m.total_tasks >= 0
             /\ m.successful_tasks >= 0
             /\ m.failed_tasks >= 0)
    /\ [][\A p \in ProviderTags :
             /\ performance_metrics'[p].total_tasks
                    >= performance_metrics[p].total_tasks
             /\ performance_metrics'[p].successful_tasks
                    >= performance_metrics[p].successful_tasks
             /\ performance_metrics'[p].failed_tasks
                    >= performance_metrics[p].failed_tasks]_vars

\* Both providers have counted attempts, one of them successes and
\* failures, and an agent was unregistered on the way.
C14_Witness ==
    /\ calls.unregister > 0
    /\ \A p \in ProviderTags : performance_metrics[p].total_tasks > 0
    /\ \E p \in ProviderTags :
           /\ performance_metrics[p].successful_tasks > 0
           /\ performance_metrics[p].failed_tasks > 0

\* C15 - Every execution attempt counts once in the provider metrics: a
\* single task run only by agents of provider P whose execute raises k
\* times and then succeeds ends COMPLETED with retry_count = k,
\* successful_tasks[P] = 1 and failed_tasks[P] = k (k <= max_retries); if
\* execute always raises the task ends FAILED with retry_count = 3 and
\* failed_tasks[P] = 4.
OnlyProvider(p) ==
    \A q \in ProviderTags \ {p} : performance_metrics[q].total_tasks = 0

C15_AttemptsCounted ==
    \A t \in TaskIds : \A p \in ProviderTags :
        OnlyProvider(p) =>
            /\ tasks[t].status = "completed" =>
                   /\ tasks[t].retry_count <= tasks[t].max_retries
                   /\ performance_metrics[p].successful_tasks = 1
                   /\ performance_metrics[p].failed_tasks = tasks[t].retry_count
            /\ tasks[t].status = "failed" =>
                   /\ tasks[t].retry_count = 3
                   /\ performance_metrics[p].successful_tasks = 0
                   /\ performance_metrics[p].failed_tasks = 4

\* Two attempts raised and the third succeeded, all on provider openai.
C15_Witness ==
    /\ OnlyProvider("openai")
    /\ \E t \in TaskIds :
           /\ tasks[t].status = "completed"
           /\ tasks[t].retry_count = 2
           /\ execCount[t] = 3
    /\ performance_metrics["openai"].successful_tasks = 1
    /\ performance_metrics["openai"].failed_tasks = 2

\* C16 - In every reachable state every registered agent record is BUSY if
\* and only if its current_task is non-null, and _select_agent_for_task
\* never returns an agent whose status is BUSY.
C16_BusyIffCurrentTask ==
    /\ \A a \in DOMAIN agents :
           agents[a].status = "busy" <=> agents[a].current_task # NoTask
    /\ \A t \in TaskIds :
           LET r == _select_agent_for_task(t) IN
           r # NoAgent => (r \in DOMAIN agents /\ agents[r].status # "busy")

\* One agent is busy with a task while the selector offers another agent
\* for a task that waits in the queue; the busy agent has worked before.
C16_Witness ==
    \E a, b \in DOMAIN agents :
        /\ agents[a].status = "busy"
        /\ agents[a].current_task \in TaskIds
        /\ agents[a].tasks_completed + agents[a].tasks_failed > 0
        /\ task_queue # <<>>
        /\ _select_agent_for_task(Head(task_queue)) = b

\* C17 - Selector eligibility: for every task and registry state the
\* selector returns an agent id only if that agent is registered, IDLE and
\* its capabilities contain the task's type or "general", and it returns
\* None if and only if no registered agent satisfies both conditions.  The
\* call changes nothing: the worker step in which it returned None leaves
\* agents, tasks and metrics as they were and the queue with the same
\* entries (the task it took is put back).
C17_SelectorEligibility ==
    /\ [](\A t \in TaskIds :
             LET r == _select_agent_for_task(t)
                 ok == {a \in DOMAIN agents :
                           /\ agents[a].status = "idle"
                           /\ \/ tasks[t].type \in agents[a].capabilities
                              \/ "general" \in agents[a].capabilities}
             IN /\ r # NoAgent => r \in ok
                /\ r = NoAgent <=> ok = {})
    /\ [][(lastPut' # <<>> /\ lastPut'[1][2] = "no_agent") =>
             /\ UNCHANGED <<agents, agentOrder, tasks, performance_metrics>>
             /\ task_queue' = Append(Tail(task_queue), Head(task_queue))]_vars

\* None is returned for a task that an idle agent lacks the capability
\* for and that a busy "general" agent could take, while the idle agent is
\* returned for a task of its own type.
C17_Witness ==
    \E t1, t2 \in TaskIds : \E a, b \in DOMAIN agents :
        /\ _select_agent_for_task(t1) = NoAgent
        /\ agents[a].status = "idle"
        /\ _select_agent_for_task(t2) = a
        /\ agents[b].status = "busy"
        /\ "general" \in agents[b].capabilities

\* The lexicographic order of the agent ids: a comes before b.
IdLess(a, b) == <<a, b>> \in {<<"a1", "a2">>}

SameScore(a, b, t) == ~ScoreGreater(a, b, t) /\ ~ScoreGreater(b, a, t)

\* C18 - Selector tie-break: among eligible agents of equal score the
\* selector returns the one with the lexicographically smallest id,
\* whatever the order of registration.
C18_TieBreakById ==
    \A t \in TaskIds :
        LET r == _select_agent_for_task(t) IN
        r # NoAgent =>
            \A b \in DOMAIN agents :
                (Eligible(b, t) /\ SameScore(b, r, t)) => ~IdLess(b, r)

\* C19 - Selector score: the returned agent has the maximal score among
\* the eligible agents (10 for an explicit capability match, else 5, plus
\* 5 * success rate, plus 2 / average response time, minus 0.1 per
\* completed task); between two eligible agents without history the one
\* with the explicit match is chosen over the "general"-only one.
C19_MaximalScore ==
    \A t \in TaskIds :
        LET r == _select_agent_for_task(t) IN
        r # NoAgent =>
            /\ \A b \in DOMAIN agents :
                   Eligible(b, t) => ~ScoreGreater(b, r, t)
            /\ \A a, b \in DOMAIN agents :
                   (/\ Eligible(a, t) /\ Eligible(b, t)
                    /\ agents[a].tasks_completed + agents[a].tasks_failed = 0
                    /\ agents[b].tasks_completed + agents[b].tasks_failed = 0
                    /\ tasks[t].type \in agents[a].capabilities
                    /\ tasks[t].type \notin agents[b].capabilities) => r # b
            \* the formula's value on three histories: 5, 16.9 and 8.4
            /\ \A a \in DOMAIN agents :
                   LET c == agents[a].tasks_completed
                       f == agents[a].tasks_failed
                       sum == agents[a].resp_sum
                       explicit == tasks[t].type \in agents[a].capabilities
                   IN /\ (c = 0 /\ ~explicit) =>
                             ScoreNum(a, t) = 5 * ScoreDen(a)
                      /\ (c = 1 /\ f = 0 /\ sum = 1 /\ explicit) =>
                             10 * ScoreNum(a, t) = 169 * ScoreDen(a)
                      /\ (c = 1 /\ f = 1 /\ sum = 2 /\ ~explicit) =>
                             10 * ScoreNum(a, t) = 84 * ScoreDen(a)

\* The agent registered second is returned because its score is higher:
\* it matches explicitly and has a history, the first one is eligible too.
C19_Witness ==
    \E t \in TaskIds :
        /\ Len(agentOrder) = 2
        /\ Eligible(agentOrder[1], t)
        /\ _select_agent_for_task(t) = agentOrder[2]
        /\ agents[agentOrder[2]].tasks_completed > 0
        /\ agents[agentOrder[1]].tasks_completed > 0

\* C20 - Dependency promotion, safety half: a task with a prerequisite that
\* is not COMPLETED is PENDING and is not on the ready queue.
C20_WaitsForPrerequisite ==
    \A t \in TaskIds :
        ~_are_dependencies_met(t) =>
            /\ tasks[t].status = "pending"
            /\ Occurrences(task_queue, t) = 0

\* C21 - Happy path: a task without dependencies, submitted while the
\* orchestrator runs and an eligible agent with an adapter is registered
\* whose execute returns a value, eventually is COMPLETED; a COMPLETED task
\* has the returned value as result, retry_count 0, and assigned_agent is
\* the id of the agent that executed it.
EndsExec(w) == workers[w].pc = "exec" /\ workers'[w].pc # "exec"

C21_HappyPath ==
    /\ \A t \in 1..HappyMaxTasks :
           (running /\ HealthyAgentFor(t))
               ~> (t \in TaskIds /\ tasks[t].status = "completed")
    /\ [](\A t \in TaskIds :
             tasks[t].status = "completed" =>
                 /\ tasks[t].result \in Outcomes
                 /\ tasks[t].retry_count = 0
                 /\ tasks[t].assigned_agent \in DOMAIN agents)
    /\ [][\A w \in WorkerIds :
             EndsExec(w) =>
                 LET t == workers[w].task IN
                 /\ tasks'[t].status = "completed"
                 /\ tasks'[t].assigned_agent = workers[w].agent_id
                 /\ tasks'[t].result \in Outcomes]_vars

\* Both tasks are COMPLETED, by different agents, and they are of
\* different types.
C21_Witness ==
    /\ Len(tasks) = 2
    /\ \A t \in TaskIds : /\ tasks[t].status = "completed"
                          /\ tasks[t].retry_count = 0
                          /\ execCount[t] = 1
    /\ tasks[1].assigned_agent # tasks[2].assigned_agent
    /\ tasks[1].type # tasks[2].type

\* C22 - A task that is COMPLETED or FAILED has exactly one of result and
\* error set: a COMPLETED task a result and no error (also when earlier
\* attempts failed), a FAILED task an error and no result.
C22_ResultXorError ==
    \A t \in TaskIds :
        /\ tasks[t].status = "completed" =>
               (tasks[t].result # "none" /\ ~tasks[t].error)
        /\ tasks[t].status = "failed" =>
               (tasks[t].error /\ tasks[t].result = "none")

\* C23 - started_at is set if and only if the status is IN_PROGRESS,
\* COMPLETED or FAILED, and completed_at if and only if it is COMPLETED or
\* FAILED: a task reset to PENDING for a retry has neither.
C23_TimestampsFollowStatus ==
    \A t \in TaskIds :
        /\ tasks[t].started_at
               <=> tasks[t].status \in {"in_progress", "completed", "failed"}
        /\ tasks[t].completed_at
               <=> tasks[t].status \in {"completed", "failed"}

\* C24 - A requeued task keeps its creation time as its position among
\* the tasks of its priority: no task is set IN_PROGRESS while a task of
\* the same priority that was created earlier waits in the ready queue.
C24_RequeueKeepsPosition ==
    [][\A w \in WorkerIds :
          StartsExec(w) =>
              \A i \in 1..Len(task_queue') :
                  tasks'[task_queue'[i]].priority
                          = tasks'[workers'[w].task].priority
                      => task_queue'[i] > workers'[w].task]_vars

\* C25 - No deadlock or starvation: while the orchestrator runs and an
\* eligible agent whose execute always ends stays registered, every
\* submitted task eventually reaches a terminal status (COMPLETED, or
\* FAILED after its retries); no task stays PENDING for ever.
Terminal(t) ==
    /\ t \in TaskIds
    /\ \/ tasks[t].status = "completed"
       \/ /\ tasks[t].status = "failed"
          /\ tasks[t].retry_count = tasks[t].max_retries

C25_NoStarvation ==
    \A t \in 1..LiveMaxTasks :
        (running /\ HealthyAgentFor(t)) ~> Terminal(t)

\* C26 - Whenever an execution by an agent ends, on every exit path
\* (success, raise with a retry left, raise with the retries exhausted),
\* the agent's record is IDLE with current_task null; hence, every execute
\* call ending, a BUSY agent eventually is IDLE again.
C26_AgentReleased ==
    /\ [][\A w \in WorkerIds :
             (EndsExec(w) /\ workers[w].live) =>
                 LET a == workers[w].agent_id IN
                 /\ agents'[a].status = "idle"
                 /\ agents'[a].current_task = NoTask]_vars
    /\ \A a \in AgentIds :
           (a \in DOMAIN agents /\ agents[a].status = "busy")
               ~> (a \notin DOMAIN agents \/ agents[a].status = "idle")

\* The fourth attempt of a task has just raised (retries exhausted) and
\* its agent, which failed all four, is idle with no current task.
C26_Witness ==
    \E t \in TaskIds : \E a \in DOMAIN agents :
        /\ tasks[t].status = "failed"
        /\ tasks[t].retry_count = tasks[t].max_retries
        /\ tasks[t].assigned_agent = a
        /\ agents[a].status = "idle"
        /\ agents[a].current_task = NoTask
        /\ agents[a].tasks_failed = 4

\* Workers that have been created and have not returned.
LiveWorkers ==
    {w \in DOMAIN workers : workers[w].pc \in {"get", "sleep", "exec"}}

Executing == {w \in DOMAIN workers : workers[w].pc = "exec"}

\* C27 - Stopping: after stop() is called, every execute call ending,
\* every worker eventually returns and stop() returns; when it returns the
\* workers list is empty, no worker is left, active_tasks is 0, no
\* registered agent is BUSY and no task is IN_PROGRESS.
C27_StopDrains ==
    /\ pool.stopping ~> ~pool.stopping
    /\ \A w \in AllWorkerIds :
           (pool.stopping /\ w \in pool.gather) ~> workers[w].pc = "done"
    /\ [][(pool.stopping /\ ~pool'.stopping) =>
             /\ pool'.list = {}
             /\ LiveWorkers' = {}
             /\ active_tasks' = 0
             /\ \A a \in DOMAIN agents' : agents'[a].status # "busy"
             /\ \A t \in DOMAIN tasks' : tasks'[t].status # "in_progress"]_vars

\* C28 - Bounded concurrency: while running exactly max_concurrent_tasks
\* workers exist; active_tasks is the number of workers inside
\* _execute_task and lies between 0 and max_concurrent_tasks.
C28_BoundedConcurrency ==
    /\ running => Cardinality(LiveWorkers) = NumWorkers
    /\ active_tasks = Cardinality(Executing)
    /\ 0 <= active_tasks
    /\ active_tasks <= NumWorkers

\* A step in which _execute_task raises before it changes anything (the
\* selected agent has no adapter): the task leaves the queue and no
\* execution starts.
RaisesAtOnce ==
    /\ task_queue # <<>>
    /\ task_queue' = Tail(task_queue)
    /\ execCount' = execCount

\* C29 - A worker never terminates because of a task: while running, all
\* max_concurrent_tasks workers are in their loops; a worker whose
\* _execute_task ends, by a return or by a raise, has restored active_tasks
\* and is back at queue.get(); a raise of _execute_task before the
\* execution started leaves every worker and active_tasks as they were.
C29_WorkerSurvivesTask ==
    /\ [](running => LiveWorkers = WorkerIds)
    /\ [](active_tasks = Cardinality(Executing))
    /\ [][\A w \in WorkerIds :
             EndsExec(w) => /\ workers'[w] = IdleWorker
                            /\ active_tasks' = active_tasks - 1]_vars
    /\ [][RaisesAtOnce => /\ workers' = workers
                          /\ active_tasks' = active_tasks]_vars

\* After an attempt of a task raised, a worker executes the next attempt
\* while the other worker waits at queue.get().
C29_Witness ==
    /\ running
    /\ \E t \in TaskIds, w \in WorkerIds, v \in WorkerIds :
           /\ tasks[t].retry_count > 0
           /\ tasks[t].error
           /\ workers[w].pc = "exec"
           /\ workers[w].task = t
           /\ v # w
           /\ workers[v].pc = "get"

\* A step in which POST /agents/register sends its response.
Answers == http'.answered # http.answered

\* C30 - POST /agents/register answers 400 and leaves the agent registry
\* and the adapter map unchanged when the provider tag is unknown to
\* create_adapter or initialize() did not return True; it answers 200 only
\* after initialize() returned True, and then the agent is registered with
\* its adapter; no agent enters the registry in any other step.
C30_RegisterRejects ==
    /\ [][Answers =>
             LET r == http'.response
                 bad == \/ create_adapter(r.provider) = UnknownProvider
                        \/ r.initialized # "True"
             IN /\ bad => /\ r.status_code = 400
                          /\ UNCHANGED <<agents, agentOrder, agent_adapters>>
                /\ ~bad => /\ r.status_code = 200
                           /\ r.agent_id \in DOMAIN agents'
                           /\ agents'[r.agent_id] =
                                  AgentInfo(r.provider, r.capabilities)
                           /\ r.agent_id \in agent_adapters']_vars
    /\ [][(\E a \in DOMAIN agents' : a \notin DOMAIN agents) =>
             /\ Answers
             /\ http'.response.status_code = 200
             /\ http'.response.initialized = "True"]_vars

\* Requests with an unknown tag, with initialize() returning None and with
\* initialize() returning True have been answered; only the last one
\* registered its agent.
C30_Witness ==
    /\ http.answered = 3
    /\ http.response.status_code = 400
    /\ http.response.initialized = "None"
    /\ Cardinality(DOMAIN agents) = 1
    /\ \E a \in DOMAIN agents : agents[a].provider = "OpenAI"

\* A step of submit_task: the task store grows.
Submits == Len(tasks') > Len(tasks)

\* C31 - submit_task: when it returns the new task is stored under a fresh
\* id with status PENDING, retry_count 0 and no assigned agent; it has been
\* appended to the ready queue exactly when every id in its dependencies
\* is a stored task with status COMPLETED (always when there are none); no
\* other task, no agent and no metric has changed.
C31_SubmitEffect ==
    [][Submits =>
          LET id == Len(tasks')
              met == \A d \in tasks'[id].dependencies :
                         /\ d \in DOMAIN tasks'
                         /\ tasks'[d].status = "completed"
          IN /\ Len(tasks') = Len(tasks) + 1
             /\ id \notin DOMAIN tasks
             /\ tasks'[id].status = "pending"
             /\ tasks'[id].retry_count = 0
             /\ tasks'[id].assigned_agent = NoAgent
             /\ tasks'[id].dependencies = {} => met
             /\ task_queue' = IF met THEN Append(task_queue, id)
                              ELSE task_queue
             /\ Occurrences(task_queue', id) = IF met THEN 1 ELSE 0
             /\ \A t \in DOMAIN tasks : tasks'[t] = tasks[t]
             /\ UNCHANGED <<agents, agentOrder, agent_adapters,
                            performance_metrics, active_tasks>>]_vars

\* A task whose prerequisite is COMPLETED has just been queued by its
\* submission.
C31_Witness ==
    \E t \in TaskIds :
        /\ tasks[t].dependencies # {}
        /\ DepsMetIn(tasks, t)
        /\ lastPut = <<<<t, "submit">>>>

\* The step in which the execute call of worker w ends by raising: the
\* failure is counted in the metrics of the provider.
Raises(w) ==
    /\ EndsExec(w)
    /\ performance_metrics'[workers[w].provider].failed_tasks >
           performance_metrics[workers[w].provider].failed_tasks

\* C32 - Failed attempt: when adapter.execute raises for a task with
\* retry_count < max_retries the attempt ends with retry_count one higher,
\* status PENDING, no assigned agent and exactly one new queue entry of the
\* task; with retry_count = max_retries it ends with status FAILED,
\* retry_count as it was and no new queue entry.  So retry_count stays
\* between 0 and max_retries and never decreases.
C32_FailedAttempt ==
    /\ [][\A w \in WorkerIds :
             Raises(w) =>
                 LET t == workers[w].task IN
                 IF tasks[t].retry_count < tasks[t].max_retries
                 THEN /\ tasks'[t].retry_count = tasks[t].retry_count + 1
                      /\ tasks'[t].status = "pending"
                      /\ tasks'[t].assigned_agent = NoAgent
                      /\ Occurrences(task_queue', t) =
                             Occurrences(task_queue, t) + 1
                 ELSE /\ tasks'[t].retry_count = tasks[t].retry_count
                      /\ tasks'[t].status = "failed"
                      /\ Occurrences(task_queue', t) =
                             Occurrences(task_queue, t)]_vars
    /\ [](\A t \in TaskIds : /\ 0 <= tasks[t].retry_count
                             /\ tasks[t].retry_count <= tasks[t].max_retries)
    /\ [][\A t \in DOMAIN tasks :
             tasks'[t].retry_count >= tasks[t].retry_count]_vars

\* The attempt after the last retry has raised: the task is FAILED with
\* all retries used and is not in the queue.
C32_Witness ==
    \E t \in TaskIds :
        /\ tasks[t].status = "failed"
        /\ tasks[t].retry_count = tasks[t].max_retries
        /\ execCount[t] = tasks[t].max_retries + 1
        /\ Occurrences(task_queue, t) = 0
        /\ \A w \in WorkerIds : workers[w].pc # "exec"

\* The step in which worker w found no agent for the task it dequeued and
\* goes to sleep.
BacksOff(w) == workers[w].pc = "get" /\ workers'[w].pc = "sleep"

\* C33 - No-agent requeue: when a worker dequeues a task and the selector
\* returns no agent, the worker puts that task back at the tail of the
\* queue and changes nothing else: no task record, no agent record, not
\* active_tasks, not the metrics; the step is no attempt of the task.
C33_NoAgentRequeue ==
    [][\A w \in WorkerIds :
          BacksOff(w) =>
              /\ task_queue # <<>>
              /\ _select_agent_for_task(Head(task_queue)) = NoAgent
              /\ task_queue' = Append(Tail(task_queue), Head(task_queue))
              /\ \A t \in TaskIds :
                     Occurrences(task_queue', t) = Occurrences(task_queue, t)
              /\ UNCHANGED <<tasks, agents, agentOrder, agent_adapters,
                             active_tasks, performance_metrics, execCount,
                             pendingPuts>>]_vars

\* A worker sleeps after it put back a task that is still PENDING and was
\* never attempted, while the only registered agent is BUSY.
C33_Witness ==
    \E w \in WorkerIds, t \in TaskIds :
        /\ workers[w].pc = "sleep"
        /\ lastPut = <<<<t, "no_agent">>>>
        /\ tasks[t].status = "pending"
        /\ tasks[t].retry_count = 0
        /\ execCount[t] = 0
        /\ \E a \in DOMAIN agents : agents[a].status = "busy"

\* A step of register_agent on an id that is already registered.
Reregisters ==
    /\ calls'.register = calls.register + 1
    /\ DOMAIN agents' = DOMAIN agents

\* C34 - register_agent on a registered id replaces the record: the id
\* then has a fresh record (IDLE, no current task, tasks_completed and
\* tasks_failed 0), the registered agents are the same ids in the same
\* order, agent_adapters holds for the id the adapter of this call (none
\* when the call supplied none), and no other agent, adapter, task or
\* metric changes.
C34_ReplaceRecord ==
    [][Reregisters =>
          \E a \in DOMAIN agents :
              /\ agents'[a].status = "idle"
              /\ agents'[a].current_task = NoTask
              /\ agents'[a].tasks_completed = 0
              /\ agents'[a].tasks_failed = 0
              /\ \A x \in DOMAIN agents \ {a} : agents'[x] = agents[x]
              /\ agentOrder' = agentOrder
              /\ a \in agent_adapters' <=> calls'.adapter
              /\ agent_adapters' \ {a} = agent_adapters \ {a}
              /\ UNCHANGED <<tasks, task_queue, performance_metrics,
                             active_tasks>>]_vars

\* Worker w is inside an execute call on an agent that has been
\* unregistered since.
Orphaned(w) ==
    /\ workers[w].pc = "exec"
    /\ ~workers[w].live
    /\ workers[w].agent_id \notin DOMAIN agents

C36_MissingAdapterDropsTask ==
    [][RaisesAtOnce =>
          LET t == Head(task_queue)
              a == _select_agent_for_task(t)
          IN /\ a # NoAgent
             /\ a \notin agent_adapters
             /\ Occurrences(task_queue', t) = Occurrences(task_queue, t) - 1
             /\ tasks'[t] = tasks[t]
             /\ UNCHANGED <<tasks, agents, agentOrder, agent_adapters,
                            active_tasks, performance_metrics, pendingPuts,
                            workers>>]_vars

\* A task was dropped: it is PENDING, unassigned and never attempted, in
\* no queue and no execution, while an idle agent without adapter that
\* matches its type is registered.
C36_Witness ==
    \E t \in TaskIds, a \in DOMAIN agents :
        /\ tasks[t].status = "pending"
        /\ tasks[t].assigned_agent = NoAgent
        /\ tasks[t].retry_count = 0
        /\ tasks[t].dependencies = {}
        /\ execCount[t] = 0
        /\ Occurrences(task_queue, t) = 0
        /\ Occurrences(pendingPuts, t) = 0
        /\ a \notin agent_adapters
        /\ agents[a].status = "idle"
        /\ active_tasks = 0

\* The places where task t is waiting or being executed: entries in the
\* ready queue, puts scheduled by unregister_agent, executions in flight.
Presence(t) ==
    Occurrences(task_queue, t) + Occurrences(pendingPuts, t)
        + Cardinality({w \in DOMAIN workers : /\ workers[w].pc = "exec"
                                              /\ workers[w].task = t})

\* C37 - While no agent is unregistered or registered again, a task without
\* dependencies is present at most once: it has at most one queue entry,
\* none while an execution of it is in flight, and at most one execution
\* in flight; and adapter.execute is called for it at most
\* max_retries + 1 times.
C37_SinglePresence ==
    \A t \in TaskIds :
        tasks[t].dependencies = {} =>
            /\ Presence(t) <= 1
            /\ execCount[t] <= tasks[t].max_retries + 1

\* A task without dependencies has used all its attempts and is FAILED
\* while a task that depends on it is stored.
C37_Witness ==
    \E t \in TaskIds, o \in TaskIds :
        /\ tasks[t].dependencies = {}
        /\ tasks[t].status = "failed"
        /\ execCount[t] = tasks[t].max_retries + 1
        /\ Presence(t) = 0
        /\ t \in tasks[o].dependencies

\* Task t has a queue entry and a registered agent with an adapter and a
\* matching capability.
Schedulable(t) ==
    /\ running
    /\ t \in TaskIds
    /\ Occurrences(task_queue, t) > 0
    /\ HealthyAgentFor(t)

C39_StatusesInUse ==
    /\ [](\A t \in TaskIds :
              tasks[t].status \in
                  {"pending", "in_progress", "completed", "failed"})
    /\ [](\A a \in DOMAIN agents : agents[a].status \in {"idle", "busy"})
    /\ [](get_status.tasks.pending + get_status.tasks.in_progress
              + get_status.tasks.completed + get_status.tasks.failed
          = get_status.tasks.total)
    /\ [][/\ Len(tasks') >= Len(tasks)
          /\ \A t \in DOMAIN tasks : tasks'[t].type = tasks[t].type]_vars

\* get_status reports one task IN_PROGRESS on a BUSY agent and one
\* COMPLETED after an agent was unregistered.
C39_Witness ==
    /\ get_status.tasks.total = 2
    /\ get_status.tasks.in_progress = 1
    /\ get_status.tasks.completed = 1
    /\ calls.unregister > 0
    /\ \E a \in DOMAIN agents : agents[a].status = "busy"

====
